---- MODULE Spec2Model ----
(***************************************************************************)
(* String Analyzer Service (src/server.js, the Express application that    *)
(* `node server.js` starts: lines 1-282).                                  *)
(*                                                                         *)
(* State: the in-memory Map `strings` (id -> analyzed record, in insertion *)
(* order), the response of the request being served and `file`, the        *)
(* snapshot of the Map persisted in strings.json.  Node runs each handler  *)
(* to completion, so a handler is one atomic action of Spec.               *)
(*                                                                         *)
(* SpecConcurrent looks inside the POST handler: several connections have  *)
(* a request in flight (`requests`), the handler's existence check and its *)
(* insert are separate steps, and `running` is the connection whose        *)
(* handler holds the call stack of the single JavaScript thread.           *)
(*                                                                         *)
(* A JavaScript string is modelled as the sequence of its characters, each *)
(* a one-character TLA+ string.                                            *)
(***************************************************************************)
EXTENDS Integers, Sequences, FiniteSets, TLC

VARIABLES strings, res, file, requests, running

vars == <<strings, res, file, requests, running>>

(***************************************************************************)
(* Bounds of the model.                                                    *)
(***************************************************************************)
\* Largest number of records the model lets the Map hold.
MaxStore == 2
\* Timestamps `new Date()` may return: 1..MaxTime.
MaxTime == 2
\* Largest N in the generated "longer than N" / "shorter than N" queries.
MaxN == 10
\* Connections with a request in flight at the same time.
MaxClients == 2

(***************************************************************************)
(* JavaScript strings.                                                     *)
(***************************************************************************)
\* The characters of a string literal, in order.
Chars(s) == [i \in 1..Len(s) |-> SubSeq(s, i, i)]

UpperLetters == Chars("ABCDEFGHIJKLMNOPQRSTUVWXYZ")
LowerLetters == Chars("abcdefghijklmnopqrstuvwxyz")
Digits == Chars("0123456789")

\* Characters matched by \s (and stripped by String.prototype.trim).
IsWhitespace(c) == c \in {" ", "\t", "\n", "\r"}
\* Characters matched by \d.
IsDigit(c) == \E i \in 1..Len(Digits) : Digits[i] = c
\* Characters matched by \w.
IsWordChar(c) ==
  \/ IsDigit(c)
  \/ c = "_"
  \/ \E i \in 1..Len(LowerLetters) : LowerLetters[i] = c \/ UpperLetters[i] = c

LowerChar(c) ==
  IF \E i \in 1..Len(UpperLetters) : UpperLetters[i] = c
  THEN LowerLetters[CHOOSE i \in 1..Len(UpperLetters) : UpperLetters[i] = c]
  ELSE c

\* String.prototype.toLowerCase
ToLowerCase(s) == [i \in 1..Len(s) |-> LowerChar(s[i])]

\* s.split("").reverse().join("")
Reverse(s) == [i \in 1..Len(s) |-> s[Len(s) + 1 - i]]

\* String.prototype.trim
Trim(s) ==
  LET keep == {i \in 1..Len(s) : ~IsWhitespace(s[i])}
  IN  IF keep = {} THEN <<>>
      ELSE LET lo == CHOOSE i \in keep : \A j \in keep : i <= j
               hi == CHOOSE i \in keep : \A j \in keep : j <= i
           IN  SubSeq(s, lo, hi)

\* Whether `needle` occurs in `s` at index i (1-based).
OccursAt(s, needle, i) ==
  /\ i >= 1
  /\ i + Len(needle) - 1 <= Len(s)
  /\ \A k \in 1..Len(needle) : s[i + k - 1] = needle[k]

\* String.prototype.includes
Includes(s, needle) == \E i \in 1..(Len(s) + 1) : OccursAt(s, needle, i)

\* s.split(/\s+/).length for a trimmed, non-empty s: the number of maximal
\* runs of non-whitespace characters.
SplitWsLength(s) ==
  Cardinality({i \in 1..Len(s) :
                 /\ ~IsWhitespace(s[i])
                 /\ (i = 1 \/ IsWhitespace(s[i - 1]))})

\* new Set(value).size
SetSize(s) == Cardinality({s[i] : i \in 1..Len(s)})

\* crypto.createHash("sha256").update(value).digest("hex"): the digest is
\* modelled as collision-free, one digest per input string.
Sha256(s) == [sha256 |-> s]

(***************************************************************************)
(* analyzeString                                                           *)
(***************************************************************************)
CharacterFrequencyMap(value) ==
  [c \in {value[i] : i \in 1..Len(value)} |->
     Cardinality({i \in 1..Len(value) : value[i] = c})]

\* (mutant of IsPalindrome: the value is compared with its reversal as
\* written, letter case included)
IsPalindromeCaseSensitive(value) == value = Reverse(value)
IsPalindrome(value) ==
  LET lowerValue == ToLowerCase(value)
  IN  lowerValue = Reverse(lowerValue)

WordCount(value) ==
  IF Trim(value) = <<>> THEN 0 ELSE SplitWsLength(Trim(value))

\* `now` is the value of new Date() when the record is built.
analyzeString(value, now) ==
  [id         |-> Sha256(value),
   value      |-> value,
   properties |-> [length                  |-> Len(value),
                   is_palindrome           |-> IsPalindrome(value),
                   unique_characters       |-> SetSize(value),
                   word_count              |-> WordCount(value),
                   sha256_hash             |-> Sha256(value),
                   character_frequency_map |-> CharacterFrequencyMap(value)],
   created_at |-> now]

(***************************************************************************)
(* The Map `strings`: a sequence of records in insertion order, at most    *)
(* one per id.                                                             *)
(***************************************************************************)
MapHas(m, id) == \E i \in 1..Len(m) : m[i].id = id
MapGet(m, id) == m[CHOOSE i \in 1..Len(m) : m[i].id = id]
MapSet(m, rec) ==
  IF MapHas(m, rec.id)
  THEN [i \in 1..Len(m) |-> IF m[i].id = rec.id THEN rec ELSE m[i]]
  ELSE Append(m, rec)
\* (mutant of MapDelete: the entry stays in the Map)
MapDeleteNothing(m, id) == m
MapDelete(m, id) == SelectSeq(m, LAMBDA r : r.id # id)
\* Array.from(strings.values())
MapValues(m) == m

(***************************************************************************)
(* Persistence.  saveStringsToFile has an empty body ("Disabled") and no   *)
(* handler of this application calls it; loadStringsFromFile only logs.    *)
(***************************************************************************)
\* The snapshot held by strings.json when nothing has been written.
NoFile == <<>>
\* saveStringsToFile() with the persisted snapshot `snapshot` and the Map m:
\* the snapshot afterwards.
saveStringsToFile(snapshot, m) == snapshot

(***************************************************************************)
(* Request bodies and responses.                                           *)
(***************************************************************************)
JsUndefined == [t |-> "undefined", s |-> <<>>, n |-> 0]
JsNull      == [t |-> "null", s |-> <<>>, n |-> 0]
JsNumber(k) == [t |-> "number", s |-> <<>>, n |-> k]
JsString(s) == [t |-> "string", s |-> s, n |-> 0]

\* An absent field of a filter object is <<>>, a present one <<v>>.
Absent == <<>>
Present(v) == <<v>>
NoFilters ==
  [is_palindrome |-> Absent, min_length |-> Absent, max_length |-> Absent,
   word_count |-> Absent, contains_character |-> Absent,
   value_contains |-> Absent]

Idle ==
  [op |-> "idle", req |-> <<>>, status |-> 0, error |-> "", data |-> <<>>,
   filters |-> NoFilters, original |-> <<>>]

\* res.status(status).json(...) with a record, a list of records or nothing.
Response(op, req, status, data, filters, original) ==
  [op |-> op, req |-> req, status |-> status, error |-> "", data |-> data,
   filters |-> filters, original |-> original]
\* res.status(status).json({ error: message })
ErrorResponse(op, req, status, message) ==
  [op |-> op, req |-> req, status |-> status, error |-> message,
   data |-> <<>>, filters |-> NoFilters, original |-> <<>>]

(***************************************************************************)
(* POST /strings                                                           *)
(***************************************************************************)
POST == "POST /strings"

\* value === undefined || value === null
IsMissing(value) == value.t \in {"undefined", "null"}
\* (mutant of IsEmptyValue: the trimmed value is not checked)
IsEmptyValueUnchecked(trimmedValue) == FALSE
\* trimmedValue === ""
IsEmptyValue(trimmedValue) == trimmedValue = <<>>

\* (mutant of AlreadyExists: the record is set without looking for its id)
AlreadyExistsUnchecked(m, id) == FALSE
\* strings.has(analyzed.id)
AlreadyExists(m, id) == MapHas(m, id)

PostStrings(value, now) ==
  /\ res.op = "idle"
  /\ UNCHANGED <<file, requests, running>>
  /\ IF IsMissing(value)
     THEN /\ res' = ErrorResponse(POST, value, 400, "Missing 'value' field.")
          /\ UNCHANGED strings
     ELSE IF value.t # "string"
     THEN /\ res' = ErrorResponse(POST, value, 422,
                       "Invalid data type for 'value'. Must be a string.")
          /\ UNCHANGED strings
     ELSE LET trimmedValue == Trim(value.s) IN
          IF IsEmptyValue(trimmedValue)
          THEN /\ res' = ErrorResponse(POST, value, 400,
                            "Value cannot be an empty string.")
               /\ UNCHANGED strings
          ELSE LET analyzed == analyzeString(trimmedValue, now) IN
               IF AlreadyExists(strings, analyzed.id)
               THEN /\ res' = ErrorResponse(POST, value, 409,
                                 "String already exists in the system.")
                    /\ UNCHANGED strings
               ELSE /\ Len(strings) < MaxStore
                    /\ strings' = MapSet(strings, analyzed)
                    /\ res' = Response(POST, value, 201, <<analyzed>>,
                                       NoFilters, <<>>)

(***************************************************************************)
(* GET /strings/:value                                                     *)
(***************************************************************************)
GET == "GET /strings/:value"

\* The id a path parameter is looked up under.
LookupId(pathValue) == analyzeString(pathValue, 0).id

GetString(searchValue) ==
  /\ res.op = "idle"
  /\ UNCHANGED <<file, requests, running>>
  /\ LET idToSearch == LookupId(searchValue) IN
     IF MapHas(strings, idToSearch)
     THEN res' = Response(GET, searchValue, 200,
                          <<MapGet(strings, idToSearch)>>, NoFilters, <<>>)
     ELSE res' = ErrorResponse(GET, searchValue, 404, "String not found")
  /\ UNCHANGED strings

(***************************************************************************)
(* DELETE /strings/:value                                                  *)
(***************************************************************************)
DELETE == "DELETE /strings/:value"

DeleteString(deleteValue) ==
  /\ res.op = "idle"
  /\ UNCHANGED <<file, requests, running>>
  /\ LET idToDelete == LookupId(deleteValue) IN
     IF MapHas(strings, idToDelete)
     THEN /\ strings' = MapDelete(strings, idToDelete)
          /\ res' = Response(DELETE, deleteValue, 204, <<>>, NoFilters, <<>>)
     ELSE /\ res' = ErrorResponse(DELETE, deleteValue, 404, "String not found")
          /\ UNCHANGED strings

(***************************************************************************)
(* GET /strings (structured query filtering)                               *)
(***************************************************************************)
QUERY == "GET /strings"

NaN == [nan |-> TRUE, n |-> 0]
Num(k) == [nan |-> FALSE, n |-> k]

DigitValue(c) == (CHOOSE i \in 1..Len(Digits) : Digits[i] = c) - 1

RECURSIVE DecimalValue(_)
DecimalValue(ds) ==
  IF ds = <<>> THEN 0
  ELSE 10 * DecimalValue(SubSeq(ds, 1, Len(ds) - 1)) + DigitValue(ds[Len(ds)])

\* The first index k >= j of s that holds no whitespace (Len(s) + 1 if none).
SkipWhitespace(s, j) ==
  CHOOSE k \in j..(Len(s) + 1) :
    /\ k = Len(s) + 1 \/ ~IsWhitespace(s[k])
    /\ \A m \in j..(k - 1) : IsWhitespace(s[m])

\* The longest run of digits of s that starts at index j (\d+ is greedy).
DigitRun(s, j) ==
  LET e == CHOOSE k \in (j - 1)..Len(s) :
             /\ \A m \in j..k : IsDigit(s[m])
             /\ k = Len(s) \/ ~IsDigit(s[k + 1])
  IN  SubSeq(s, j, e)

\* parseInt(s, 10): leading whitespace and one sign are skipped, the digits
\* that follow are read, and whatever comes after them is ignored.
ParseInt(s) ==
  LET start    == SkipWhitespace(s, 1)
      negative == start <= Len(s) /\ s[start] = "-"
      signed   == start <= Len(s) /\ s[start] \in {"-", "+"}
      first    == IF signed THEN start + 1 ELSE start
      digits   == DigitRun(s, first)
  IN  IF digits = <<>> THEN NaN
      ELSE Num(IF negative THEN 0 - DecimalValue(digits)
               ELSE DecimalValue(digits))

\* isNaN(k) || k < 0
IsInvalidNumber(k) == k.nan \/ k.n < 0

\* isPalindrome !== 'true' && isPalindrome !== 'false'
IsInvalidBoolean(isPalindrome) ==
  isPalindrome # Chars("true") /\ isPalindrome # Chars("false")

\* typeof char !== 'string' || char.length > 1
IsInvalidCharacter(char) == Len(char) > 1

\* The predicates of results.filter(...)
PalindromeIs(s, boolValue) == s.properties.is_palindrome = boolValue
\* (mutant of LengthAtLeast: the lower bound is exclusive)
LengthAtLeastStrict(s, minLength) == s.properties.length > minLength
LengthAtLeast(s, minLength) == s.properties.length >= minLength
LengthAtMost(s, maxLength) == s.properties.length <= maxLength
WordCountIs(s, wordCount) == s.properties.word_count = wordCount
\* s.value.toLowerCase().includes(lowerText)
ValueIncludes(s, lowerText) == Includes(ToLowerCase(s.value), lowerText)

\* The response of GET /strings to the query parameters `filters`, each
\* Absent or Present(string), over the Map m.
QueryResponse(m, filters) ==
  LET bad(message) == ErrorResponse(QUERY, filters, 400, message)
      results0 == MapValues(m)
      hasPal  == filters.is_palindrome # Absent
      isPalindrome == ToLowerCase(filters.is_palindrome[1])
      boolValue == isPalindrome = Chars("true")
      results1 == IF hasPal
                  THEN SelectSeq(results0, LAMBDA s : PalindromeIs(s, boolValue))
                  ELSE results0
      hasMin  == filters.min_length # Absent
      minLength == ParseInt(filters.min_length[1])
      results2 == IF hasMin
                  THEN SelectSeq(results1, LAMBDA s : LengthAtLeast(s, minLength.n))
                  ELSE results1
      hasMax  == filters.max_length # Absent
      maxLength == ParseInt(filters.max_length[1])
      results3 == IF hasMax
                  THEN SelectSeq(results2, LAMBDA s : LengthAtMost(s, maxLength.n))
                  ELSE results2
      hasWc   == filters.word_count # Absent
      wordCount == ParseInt(filters.word_count[1])
      results4 == IF hasWc
                  THEN SelectSeq(results3, LAMBDA s : WordCountIs(s, wordCount.n))
                  ELSE results3
      hasChar == filters.contains_character # Absent
      char == filters.contains_character[1]
      lowerChar == ToLowerCase(char)
      results5 == IF hasChar
                  THEN SelectSeq(results4, LAMBDA s : ValueIncludes(s, lowerChar))
                  ELSE results4
      filters_applied ==
        [is_palindrome |-> IF hasPal THEN Present(boolValue) ELSE Absent,
         min_length |-> IF hasMin THEN Present(minLength.n) ELSE Absent,
         max_length |-> IF hasMax THEN Present(maxLength.n) ELSE Absent,
         word_count |-> IF hasWc THEN Present(wordCount.n) ELSE Absent,
         contains_character |-> IF hasChar THEN Present(char) ELSE Absent,
         value_contains |-> Absent]
  IN  IF hasPal /\ IsInvalidBoolean(isPalindrome)
      THEN bad("Invalid value for is_palindrome. Must be 'true' or 'false'.")
      ELSE IF hasMin /\ IsInvalidNumber(minLength)
      THEN bad("Invalid value for min_length. Must be a non-negative integer.")
      ELSE IF hasMax /\ IsInvalidNumber(maxLength)
      THEN bad("Invalid value for max_length. Must be a non-negative integer.")
      ELSE IF hasWc /\ IsInvalidNumber(wordCount)
      THEN bad("Invalid value for word_count. Must be a non-negative integer.")
      ELSE IF hasChar /\ IsInvalidCharacter(char)
      THEN bad("Invalid value for contains_character. Must be a single character string.")
      ELSE Response(QUERY, filters, 200, results5, filters_applied, <<>>)

GetStrings(filters) ==
  /\ res.op = "idle"
  /\ res' = QueryResponse(strings, filters)
  /\ UNCHANGED <<strings, file, requests, running>>

(***************************************************************************)
(* GET /strings/filter-by-natural-language                                 *)
(***************************************************************************)
NLQUERY == "GET /strings/filter-by-natural-language"

\* !query || typeof query !== "string"
IsMissingQuery(query) == query.t # "string" \/ query.s = <<>>

\* lowerQuery.match(/<phrase>\s*(\d+)/): the digits captured by the leftmost
\* match, Absent when there is none.
MatchNumberAfter(lowerQuery, phrase) ==
  LET digitsAt(i) == SkipWhitespace(lowerQuery, i + Len(phrase))
      matches == {i \in 1..Len(lowerQuery) :
                    /\ OccursAt(lowerQuery, phrase, i)
                    /\ digitsAt(i) <= Len(lowerQuery)
                    /\ IsDigit(lowerQuery[digitsAt(i)])}
  IN  IF matches = {} THEN Absent
      ELSE LET i == CHOOSE k \in matches : \A j \in matches : k <= j
           IN  Present(DigitRun(lowerQuery, digitsAt(i)))

\* lowerQuery.match(/contain(?:ing)? the letter (\w)/): the character
\* captured by the leftmost match, Absent when there is none.
MatchLetter(lowerQuery) ==
  LET long  == Chars("containing the letter ")
      short == Chars("contain the letter ")
      at(i, prefix) ==
        /\ OccursAt(lowerQuery, prefix, i)
        /\ i + Len(prefix) <= Len(lowerQuery)
        /\ IsWordChar(lowerQuery[i + Len(prefix)])
      matches == {i \in 1..Len(lowerQuery) : at(i, long) \/ at(i, short)}
  IN  IF matches = {} THEN Absent
      ELSE LET i == CHOOSE k \in matches : \A j \in matches : k <= j
               prefix == IF at(i, long) THEN long ELSE short
           IN  Present(<<lowerQuery[i + Len(prefix)]>>)

\* The palindrome rule: is_palindrome of the derived filters.
\* (mutant of PalindromeRule: the negated phrases are not looked for)
PalindromeRulePlain(lowerQuery) ==
  IF Includes(lowerQuery, Chars("palindrome")) THEN Present(TRUE) ELSE Absent
PalindromeRule(lowerQuery) ==
  LET isNegativePalindrome ==
        \/ Includes(lowerQuery, Chars("non-palindrome"))
        \/ Includes(lowerQuery, Chars("not palindrome"))
      isPositivePalindrome ==
        Includes(lowerQuery, Chars("palindrome")) /\ ~isNegativePalindrome
  IN  IF isNegativePalindrome THEN Present(FALSE)
      ELSE IF isPositivePalindrome THEN Present(TRUE)
      ELSE Absent

\* The length rules: parseInt(match[1], 10) + 1 and parseInt(match[1], 10) - 1.
\* (mutant of MinLengthOf: the bound is N itself, not N + 1)
MinLengthOfInclusive(digits) == ParseInt(digits).n
MinLengthOf(digits) == ParseInt(digits).n + 1
MaxLengthOf(digits) == ParseInt(digits).n - 1

\* (mutant of WithDefault: no fallback when no filter matched)
WithoutDefault(filters, lowerQuery) == filters
\* Step 5: value_contains = lowerQuery when Object.keys(filters).length === 0.
WithDefault(filters, lowerQuery) ==
  IF filters = NoFilters
  THEN [filters EXCEPT !.value_contains = Present(lowerQuery)]
  ELSE filters

\* The filters the handler derives from the lowercased query.
ParseQuery(lowerQuery) ==
  LET minLengthMatch == MatchNumberAfter(lowerQuery, Chars("longer than"))
      maxLengthMatch == MatchNumberAfter(lowerQuery, Chars("shorter than"))
      charMatch == MatchLetter(lowerQuery)
      filters ==
        [is_palindrome |-> PalindromeRule(lowerQuery),
         word_count |->
           IF Includes(lowerQuery, Chars("single word")) THEN Present(1)
           ELSE Absent,
         min_length |->
           IF minLengthMatch # Absent
           THEN Present(MinLengthOf(minLengthMatch[1])) ELSE Absent,
         max_length |->
           IF maxLengthMatch # Absent
           THEN Present(MaxLengthOf(maxLengthMatch[1])) ELSE Absent,
         contains_character |->
           IF Includes(lowerQuery, Chars("first vowel")) THEN Present(<<"a">>)
           ELSE charMatch,
         value_contains |-> Absent]
  IN  WithDefault(filters, lowerQuery)

\* Step 6 of the handler: the records of `all` that pass every present filter.
ExecuteFiltering(all, filters) ==
  LET results1 == IF filters.is_palindrome # Absent
                  THEN SelectSeq(all,
                         LAMBDA s : PalindromeIs(s, filters.is_palindrome[1]))
                  ELSE all
      results2 == IF filters.word_count # Absent
                  THEN SelectSeq(results1,
                         LAMBDA s : WordCountIs(s, filters.word_count[1]))
                  ELSE results1
      results3 == IF filters.min_length # Absent
                  THEN SelectSeq(results2,
                         LAMBDA s : LengthAtLeast(s, filters.min_length[1]))
                  ELSE results2
      results4 == IF filters.max_length # Absent
                  THEN SelectSeq(results3,
                         LAMBDA s : LengthAtMost(s, filters.max_length[1]))
                  ELSE results3
      results5 == IF filters.contains_character # Absent
                  THEN SelectSeq(results4,
                         LAMBDA s : ValueIncludes(s,
                                      ToLowerCase(filters.contains_character[1])))
                  ELSE results4
  IN  IF filters.value_contains # Absent
      THEN SelectSeq(results5,
             LAMBDA s : ValueIncludes(s, filters.value_contains[1]))
      ELSE results5

\* The response of the handler to `query` over the Map m.
NaturalLanguageResponse(m, query) ==
  IF IsMissingQuery(query)
  THEN ErrorResponse(NLQUERY, query, 400,
                     "Missing or invalid 'query' parameter")
  ELSE LET lowerQuery == ToLowerCase(query.s) IN
       IF Trim(lowerQuery) = <<>>
       THEN Response(NLQUERY, query, 200, MapValues(m), NoFilters, <<>>)
       ELSE LET filters == ParseQuery(lowerQuery)
            IN  Response(NLQUERY, query, 200,
                         ExecuteFiltering(MapValues(m), filters),
                         filters, query.s)

FilterByNaturalLanguage(query) ==
  /\ res.op = "idle"
  /\ res' = NaturalLanguageResponse(strings, query)
  /\ UNCHANGED <<strings, file, requests, running>>

(***************************************************************************)
(* The response is sent and the server waits for the next request.         *)
(***************************************************************************)
Reply ==
  /\ res.op # "idle"
  /\ res' = Idle
  /\ UNCHANGED <<strings, file, requests, running>>

(***************************************************************************)
(* The requests the model sends.                                           *)
(***************************************************************************)
\* Values of new Date().toISOString().
Times == 1..MaxTime

\* Number.prototype.toString: the decimal digits of n >= 0.
RECURSIVE ToDigits(_)
ToDigits(n) ==
  IF n < 10 THEN <<Digits[n + 1]>>
  ELSE ToDigits(n \div 10) \o <<Digits[(n % 10) + 1]>>

\* The `value` field of the bodies posted to /strings.
SubmitValues ==
  {JsUndefined, JsNull, JsNumber(42)} \cup
  {JsString(Chars(s)) :
     s \in {"racecar", "Racecar", " racecar ", "hello", "ab ba", "one two",
            "a", "", "  "}}

\* The :value path parameters of GET and DELETE /strings/:value.
PathValues ==
  {Chars(s) :
     s \in {"racecar", "RACECAR", "Racecar", " racecar ", "hello", "ab ba",
            "one two", "a", "zzz"}}

OneOf(texts) == {Absent} \cup {Present(Chars(s)) : s \in texts}

\* Query strings of GET /strings whose parameters are all well formed.
ValidQueryFilters ==
  [is_palindrome : OneOf({"true", "false"}),
   min_length : OneOf({"5", "2"}),
   max_length : OneOf({"5"}),
   word_count : OneOf({"1"}),
   contains_character : OneOf({"a", "R"})]

NoQueryFilters ==
  [is_palindrome |-> Absent, min_length |-> Absent, max_length |-> Absent,
   word_count |-> Absent, contains_character |-> Absent]

\* Query strings with one numeric or character parameter that is not a plain
\* non-negative integer or a single character, alone or next to a
\* well-formed is_palindrome.
OddNumbers == {"", "abc", "-1", "2x", "1.5", " 7"}
OddCharacters == {"", "ab", "abc"}
OddQueryFilters ==
  LET bases == {NoQueryFilters,
                [NoQueryFilters EXCEPT !.is_palindrome = Present(Chars("true"))]}
  IN  UNION {
        {[b EXCEPT !.min_length = Present(Chars(t))] : t \in OddNumbers}
        \cup
        {[b EXCEPT !.max_length = Present(Chars(t))] : t \in OddNumbers}
        \cup
        {[b EXCEPT !.word_count = Present(Chars(t))] : t \in OddNumbers}
        \cup
        {[b EXCEPT !.contains_character = Present(Chars(t))] :
           t \in OddCharacters}
        : b \in bases}

\* Query strings whose is_palindrome is not the text true or false.
OddBooleanQueryFilters ==
  {[NoQueryFilters EXCEPT !.is_palindrome = Present(Chars(t))] :
     t \in {"TRUE", "yes", "", "1"}}

QueryFilters ==
  ValidQueryFilters \cup OddQueryFilters \cup OddBooleanQueryFilters

LongerThan(n) == Chars("strings longer than ") \o ToDigits(n)
ShorterThan(n) == Chars("strings shorter than ") \o ToDigits(n)

\* The `query` parameter of GET /strings/filter-by-natural-language.
NaturalLanguageQueries ==
  {JsUndefined} \cup
  {JsString(Chars(s)) :
     s \in {"", "  ",
            "all single word palindromic strings",
            "all single word palindrome strings",
            "palindrome strings",
            "non-palindrome strings",
            "strings that are not palindrome",
            "Non-Palindrome strings longer than 5",
            "single word palindromes longer than 3",
            "longer than 10 and shorter than 5",
            "strings longer than5 and shorter than  8",
            "strings containing the letter a",
            "strings that contain the letter R",
            "strings with the first vowel",
            "hello", "ACE", "zzz"}} \cup
  {JsString(LongerThan(n)) : n \in 0..MaxN} \cup
  {JsString(ShorterThan(n)) : n \in 0..MaxN}

(***************************************************************************)
(* Requests in flight on several connections.  The event loop calls a      *)
(* route handler only when the call stack is empty, and the handlers of    *)
(* POST /strings and DELETE /strings/:value contain no await and no        *)
(* callback, so a handler that has started returns before another starts.  *)
(***************************************************************************)
Clients == 1..MaxClients
NoClient == 0

NoRequest ==
  [pc |-> "none", op |-> "", value |-> <<>>, analyzed |-> <<>>, status |-> 0]

\* The request of connection c has been read and waits for its handler.
Receive(c, op, value) ==
  /\ requests[c].pc \in {"none", "done"}
  /\ requests' = [requests EXCEPT ![c] =
                    [pc |-> "received", op |-> op, value |-> value,
                     analyzed |-> <<>>, status |-> 0]]
  /\ UNCHANGED <<strings, res, file, running>>

\* The handler of connection c has answered with `status`.
Answered(c, status) ==
  [requests EXCEPT ![c].pc = "done", ![c].analyzed = <<>>,
                   ![c].status = status]

\* (mutant of CallStackFree: a handler starts while another has not returned)
CallStackIgnored == TRUE
\* The event loop takes the next request: no handler is on the call stack.
CallStackFree == running = NoClient

\* POST /strings up to the existence check: the validations, analyzeString
\* and strings.has.
PostStringsCheck(c, now) ==
  /\ CallStackFree
  /\ requests[c].pc = "received"
  /\ requests[c].op = POST
  /\ UNCHANGED <<strings, res, file>>
  /\ LET value == requests[c].value IN
     IF IsMissing(value)
     THEN requests' = Answered(c, 400) /\ UNCHANGED running
     ELSE IF value.t # "string"
     THEN requests' = Answered(c, 422) /\ UNCHANGED running
     ELSE LET trimmedValue == Trim(value.s) IN
          IF IsEmptyValue(trimmedValue)
          THEN requests' = Answered(c, 400) /\ UNCHANGED running
          ELSE LET analyzed == analyzeString(trimmedValue, now) IN
               IF AlreadyExists(strings, analyzed.id)
               THEN requests' = Answered(c, 409) /\ UNCHANGED running
               ELSE /\ requests' = [requests EXCEPT ![c].pc = "set",
                                       ![c].analyzed = <<analyzed>>]
                    /\ running' = c

\* POST /strings from strings.set to the 201 response.
PostStringsSet(c) ==
  /\ requests[c].pc = "set"
  /\ strings' = MapSet(strings, requests[c].analyzed[1])
  /\ requests' = Answered(c, 201)
  /\ running' = NoClient
  /\ UNCHANGED <<res, file>>

\* DELETE /strings/:value: strings.delete is one call.
DeleteStringServed(c) ==
  /\ CallStackFree
  /\ requests[c].pc = "received"
  /\ requests[c].op = DELETE
  /\ LET idToDelete == LookupId(requests[c].value) IN
     IF MapHas(strings, idToDelete)
     THEN /\ strings' = MapDelete(strings, idToDelete)
          /\ requests' = Answered(c, 204)
     ELSE /\ requests' = Answered(c, 404)
          /\ UNCHANGED strings
  /\ UNCHANGED <<res, file, running>>

\* The bodies and path values the connections send.
ConcurrentSubmitValues ==
  {JsString(Chars(s)) : s \in {"racecar", " racecar ", "hello", ""}}
ConcurrentPathValues == {Chars(s) : s \in {"racecar", "hello"}}

(***************************************************************************)
(* The state machine.                                                      *)
(***************************************************************************)
Init ==
  /\ strings = <<>>
  /\ res = Idle
  /\ file = NoFile
  /\ requests = [c \in Clients |-> NoRequest]
  /\ running = NoClient

Next ==
  \/ \E value \in SubmitValues, now \in Times : PostStrings(value, now)
  \/ \E value \in PathValues : GetString(value)
  \/ \E value \in PathValues : DeleteString(value)
  \/ \E filters \in QueryFilters : GetStrings(filters)
  \/ \E query \in NaturalLanguageQueries : FilterByNaturalLanguage(query)
  \/ Reply

Spec == Init /\ [][Next]_vars

NextConcurrent ==
  \E c \in Clients :
    \/ \E value \in ConcurrentSubmitValues : Receive(c, POST, value)
    \/ \E value \in ConcurrentPathValues : Receive(c, DELETE, value)
    \/ \E now \in Times : PostStringsCheck(c, now)
    \/ PostStringsSet(c)
    \/ DeleteStringServed(c)

SpecConcurrent == Init /\ [][NextConcurrent]_vars

(***************************************************************************)
(* Properties.                                                             *)
(***************************************************************************)
\* The documented normalization: the trimmed input, case-folded.
Normalized(s) == ToLowerCase(Trim(s))

\* Whether the Map m holds a record whose stored value is v.
Stored(m, v) == \E i \in 1..Len(m) : m[i].value = v

\* C1: a Submit of a value whose trimmed, case-folded form equals that of a
\* record in the store is answered 409 Conflict without a record, and the
\* store stays as it was.
C1_DuplicateSubmitConflicts ==
  [][(/\ res'.op = POST
      /\ res'.req.t = "string"
      /\ \E i \in 1..Len(strings) :
           Normalized(strings[i].value) = Normalized(res'.req.s))
     => (/\ res'.status = 409
         /\ res'.data = <<>>
         /\ strings' = strings)]_vars

\* C2: a Fetch of a case-only variant of a stored value is answered 200 with
\* the stored record of that value.
C2_FetchCaseVariant ==
  (/\ res.op = GET
   /\ \E i \in 1..Len(strings) :
        ToLowerCase(strings[i].value) = ToLowerCase(res.req))
  => (/\ res.status = 200
      /\ Len(res.data) = 1
      /\ \E i \in 1..Len(strings) :
           /\ strings[i] = res.data[1]
           /\ ToLowerCase(strings[i].value) = ToLowerCase(res.req))

\* C3: a Remove of a stored value is answered 204 with no content and takes
\* exactly that record out of the store; a Remove of a value that is not
\* stored is answered 404 and leaves the store as it was; a Fetch of a value
\* that is not stored is answered 404; and a value that is not stored comes
\* to be stored again only by a successful Submit of it.
C3_RemoveThenNotFound ==
  [][/\ (res'.op = DELETE /\ Stored(strings, res'.req))
          => (/\ res'.status = 204
              /\ res'.error = ""
              /\ res'.data = <<>>
              /\ ~Stored(strings', res'.req)
              /\ strings' = SelectSeq(strings, LAMBDA r : r.value # res'.req))
     /\ (res'.op = DELETE /\ ~Stored(strings, res'.req))
          => (/\ res'.status = 404
              /\ res'.error # ""
              /\ strings' = strings)
     /\ (res'.op = GET /\ ~Stored(strings, res'.req))
          => (/\ res'.status = 404
              /\ res'.data = <<>>)
     /\ \A v \in PathValues :
          (~Stored(strings, v) /\ Stored(strings', v))
            => (/\ res'.op = POST
                /\ res'.status = 201
                /\ Trim(res'.req.s) = v)]_vars

\* C3 witness: a record was removed with 204 while another one stays stored.
C3_Witness ==
  /\ res.op = DELETE
  /\ res.status = 204
  /\ ~Stored(strings, res.req)
  /\ Len(strings) >= 1

\* Whether a posted `value` is missing, not a string, empty or only
\* whitespace.
IsInvalidValue(value) ==
  \/ value.t # "string"
  \/ \A i \in 1..Len(value.s) : IsWhitespace(value.s[i])

\* C4: a Submit of a missing, non-string, empty or whitespace-only value is
\* answered with an error (400 or 422) and no record, and the store stays as
\* it was.
C4_InvalidSubmitRejected ==
  [][(res'.op = POST /\ IsInvalidValue(res'.req))
     => (/\ res'.status \in {400, 422}
         /\ res'.error # ""
         /\ res'.data = <<>>
         /\ strings' = strings)]_vars

\* C4 witness: a whitespace-only value was rejected while the store holds a
\* record.
C4_Witness ==
  /\ res.op = POST
  /\ res.req = JsString(Chars("  "))
  /\ res.status = 400
  /\ strings # <<>>

\* Whether a query parameter is the text of a non-negative integer.
IsNonNegativeInteger(text) ==
  LET t == Trim(text)
  IN  t # <<>> /\ \A i \in 1..Len(t) : IsDigit(t[i])

\* A structured filter whose present parameters are all well formed.
IsValidFilter(f) ==
  /\ f.is_palindrome # Absent
       => f.is_palindrome[1] \in {Chars("true"), Chars("false")}
  /\ \A text \in {f.min_length, f.max_length, f.word_count} :
       text # Absent => IsNonNegativeInteger(text[1])
  /\ f.contains_character # Absent => Len(f.contains_character[1]) = 1

\* Whether record r satisfies every present predicate of the valid filter f.
Satisfies(r, f) ==
  /\ f.is_palindrome # Absent
       => (r.properties.is_palindrome <=> f.is_palindrome[1] = Chars("true"))
  /\ f.min_length # Absent
       => r.properties.length >= DecimalValue(Trim(f.min_length[1]))
  /\ f.max_length # Absent
       => r.properties.length <= DecimalValue(Trim(f.max_length[1]))
  /\ f.word_count # Absent
       => r.properties.word_count = DecimalValue(Trim(f.word_count[1]))
  /\ f.contains_character # Absent
       => \E i \in 1..Len(r.value) :
            LowerChar(r.value[i]) = LowerChar(f.contains_character[1][1])

\* C5: for a valid structured filter, Query is answered 200 with exactly the
\* stored records that satisfy every present predicate, in the store's
\* listing order.
C5_QueryReturnsMatches ==
  (res.op = QUERY /\ IsValidFilter(res.req))
  => (/\ res.status = 200
      /\ res.data = SelectSeq(strings, LAMBDA r : Satisfies(r, res.req)))

\* C5 witness: min_length=5&max_length=5 returned the one stored record of
\* length 5 and left out the other stored record.
C5_Witness ==
  /\ res.op = QUERY
  /\ res.req = [NoQueryFilters EXCEPT !.min_length = Present(Chars("5")),
                                      !.max_length = Present(Chars("5"))]
  /\ Len(strings) = 2
  /\ Len(res.data) = 1
  /\ res.data[1].properties.length = 5

\* A structured filter with a malformed parameter: contains_character that
\* is not exactly one character, or a numeric bound that is not a
\* non-negative integer.
IsMalformedFilter(f) ==
  \/ f.contains_character # Absent /\ Len(f.contains_character[1]) # 1
  \/ \E text \in {f.min_length, f.max_length, f.word_count} :
       text # Absent /\ ~IsNonNegativeInteger(text[1])

\* C6: Query answers every malformed structured filter with an error and no
\* result list.
C6_MalformedFilterRejected ==
  (res.op = QUERY /\ IsMalformedFilter(res.req))
  => (/\ res.status = 400
      /\ res.error # ""
      /\ res.data = <<>>)

\* Whether record r is a one-word palindrome.
IsOneWordPalindrome(r) ==
  r.properties.is_palindrome /\ r.properties.word_count = 1

\* C7: the query "all single word palindromic strings" derives exactly the
\* filters {is_palindrome: true, word_count: 1} and returns exactly the
\* stored one-word palindromes.
C7_SingleWordPalindromic ==
  (/\ res.op = NLQUERY
   /\ res.req = JsString(Chars("all single word palindromic strings")))
  => (/\ res.status = 200
      /\ res.filters = [NoFilters EXCEPT !.is_palindrome = Present(TRUE),
                                         !.word_count = Present(1)]
      /\ res.data = SelectSeq(strings, IsOneWordPalindrome))

\* Whether the lowercased query holds a negated palindrome phrase.
HasNegatedPalindrome(lowerQuery) ==
  \/ Includes(lowerQuery, Chars("non-palindrome"))
  \/ Includes(lowerQuery, Chars("not palindrome"))

\* C8: a query with a negated palindrome phrase derives is_palindrome =
\* false, and is_palindrome = true is derived only from a query that holds
\* "palindrome" and no negated phrase.
C8_NegatedPalindromeWins ==
  (res.op = NLQUERY /\ res.status = 200)
  => LET lowerQuery == ToLowerCase(res.req.s)
     IN  /\ HasNegatedPalindrome(lowerQuery)
              => res.filters.is_palindrome = Present(FALSE)
         /\ res.filters.is_palindrome = Present(TRUE)
              => (/\ Includes(lowerQuery, Chars("palindrome"))
                  /\ ~HasNegatedPalindrome(lowerQuery))

\* C8 witness: "non-palindrome strings" derived is_palindrome = false and
\* returned a stored record that is no palindrome.
C8_Witness ==
  /\ res.op = NLQUERY
  /\ res.req = JsString(Chars("non-palindrome strings"))
  /\ res.filters.is_palindrome = Present(FALSE)
  /\ Len(res.data) = 1
  /\ ~res.data[1].properties.is_palindrome

\* C9: "longer than N" derives min_length = N + 1 and returns the stored
\* records longer than N; "shorter than N" derives max_length = N - 1 and
\* returns the stored records shorter than N (none for N = 0).
C9_LengthBounds ==
  res.op = NLQUERY
  => \A n \in 0..MaxN :
       /\ res.req = JsString(LongerThan(n))
            => (/\ res.status = 200
                /\ res.filters.min_length = Present(n + 1)
                /\ res.data =
                     SelectSeq(strings, LAMBDA r : r.properties.length > n))
       /\ res.req = JsString(ShorterThan(n))
            => (/\ res.status = 200
                /\ res.filters.max_length = Present(n - 1)
                /\ res.data =
                     SelectSeq(strings, LAMBDA r : r.properties.length < n)
                /\ n = 0 => res.data = <<>>)

\* C9 witness: "strings longer than 5" returned the stored record of length
\* 7 and left out the stored record of length 5.
C9_Witness ==
  /\ res.op = NLQUERY
  /\ res.req = JsString(LongerThan(5))
  /\ res.filters.min_length = Present(6)
  /\ Len(strings) = 2
  /\ Len(res.data) = 1
  /\ \E i \in 1..2 : strings[i].properties.length = 5

\* C10: a natural-language query whose text is empty or only whitespace is
\* answered 200 with the empty filter set and every stored record.
C10_BlankQueryMatchesAll ==
  (/\ res.op = NLQUERY
   /\ res.req.t = "string"
   /\ Trim(res.req.s) = <<>>)
  => (/\ res.status = 200
      /\ res.filters = NoFilters
      /\ res.data = strings)


\* Whether a derived filter set holds a field other than value_contains.
HasStructuredFilter(f) ==
  \/ f.is_palindrome # Absent
  \/ f.word_count # Absent
  \/ f.min_length # Absent
  \/ f.max_length # Absent
  \/ f.contains_character # Absent

\* What C11 says of the response to the query text `q`: it is a 200;
\* value_contains is set exactly when no other filter field was derived; and
\* then the filters are exactly {value_contains: lowercased q} and the
\* result is the stored records whose value holds q, whatever the case.
FallsBackToSubstring(q) ==
  /\ res.status = 200
  /\ res.filters.value_contains # Absent <=> ~HasStructuredFilter(res.filters)
  /\ res.filters.value_contains # Absent
       => (/\ res.filters =
                [NoFilters EXCEPT !.value_contains = Present(ToLowerCase(q))]
           /\ res.data =
                SelectSeq(strings,
                  LAMBDA r : \E i \in 1..Len(r.value) :
                    OccursAt(ToLowerCase(r.value), ToLowerCase(q), i)))

DerivesConflictingFilters(q) ==
  LET f == ParseQuery(ToLowerCase(q))
  IN  /\ f.min_length # Absent
      /\ f.max_length # Absent
      /\ f.min_length[1] > f.max_length[1]

\* C12: a natural-language query whose derived filters conflict is answered
\* 422 with an error and no result list.
C12_ConflictingFiltersRejected ==
  (/\ res.op = NLQUERY
   /\ res.req.t = "string"
   /\ Trim(res.req.s) # <<>>
   /\ DerivesConflictingFilters(res.req.s))
  => (/\ res.status = 422
      /\ res.error # ""
      /\ res.data = <<>>)


\* C13: whenever no request is in progress the persisted snapshot equals
\* the store's contents (every committed Submit and Remove has been saved
\* before its request completed).
C13_SnapshotFollowsStore ==
  res.op = "idle" => file = strings


\* C14: a stored record stays in the store, identical in id, value,
\* properties and created_at and at the same place in the listing, through
\* every step except a successful Remove of that record; the store never
\* holds two records of one id.
C14_RecordsImmutable ==
  [][/\ \A i \in 1..Len(strings) :
          \/ \E j \in 1..Len(strings') : strings'[j] = strings[i]
          \/ /\ res'.op = DELETE
             /\ res'.status = 204
             /\ res'.req = strings[i].value
     /\ res'.op \in {POST, GET, QUERY, NLQUERY}
          => /\ Len(strings') >= Len(strings)
             /\ \A i \in 1..Len(strings) : strings'[i] = strings[i]
     /\ \A i, j \in 1..Len(strings') :
          strings'[i].id = strings'[j].id => i = j]_vars

\* C14 witness: a duplicate Submit was rejected with 409 and the record
\* created at time 1 is still stored.
C14_Witness ==
  /\ res.op = POST
  /\ res.status = 409
  /\ \E i \in 1..Len(strings) :
       /\ strings[i].value = Trim(res.req.s)
       /\ strings[i].created_at = 1


\* C15: in every reachable state each stored record's is_palindrome flag is
\* true exactly when its value reads the same in both directions once letter
\* case is folded ("Racecar" is a palindrome, "hello" is not).
C15_PalindromeFlag ==
  \A i \in 1..Len(strings) :
    LET v == strings[i].value
    IN  strings[i].properties.is_palindrome
          <=> \A k \in 1..Len(v) : LowerChar(v[k]) = LowerChar(v[Len(v) + 1 - k])

\* C15 witness: the store holds "Racecar" flagged a palindrome and "hello"
\* flagged not a palindrome.
C15_Witness ==
  /\ \E i \in 1..Len(strings) :
       /\ strings[i].value = Chars("Racecar")
       /\ strings[i].properties.is_palindrome
  /\ \E i \in 1..Len(strings) :
       /\ strings[i].value = Chars("hello")
       /\ ~strings[i].properties.is_palindrome


\* C16: Submit, Fetch and Remove derive the record id from their argument
\* with the same normalization: once Submit(v) has created a record (201),
\* the id Fetch(v) and Remove(v) look v up under is the id of the created
\* record, so that the store holds that record under it.
C16_SameNormalization ==
  (res.op = POST /\ res.status = 201)
    => /\ LookupId(res.req.s) = res.data[1].id
       /\ MapHas(strings, LookupId(res.req.s))
       /\ MapGet(strings, LookupId(res.req.s)) = res.data[1]

\* The content a Submit on connection c asks to store.
SubmittedContent(c) == Trim(requests[c].value.s)

\* C17: in every interleaving of requests in flight on several connections,
\* no other request's mutation comes between a Submit's existence check and
\* its insert: while an insert is pending its id is not in the store and no
\* other connection has an insert pending, every insert adds one record,
\* every 409 is for content that is stored, and the store never holds two
\* records of one id.
C17_CheckAndInsertNotSeparated ==
  [][/\ \A c \in Clients :
          /\ requests'[c].pc = "set"
               => /\ ~MapHas(strings', requests'[c].analyzed[1].id)
                  /\ \A d \in Clients \ {c} : requests'[d].pc # "set"
          /\ (requests[c].pc = "set" /\ requests'[c].pc = "done")
               => /\ requests'[c].status = 201
                  /\ Len(strings') = Len(strings) + 1
                  /\ strings'[Len(strings')] = requests[c].analyzed[1]
                  /\ SubSeq(strings', 1, Len(strings)) = strings
          /\ (requests'[c].pc = "done" /\ requests'[c].status = 409
                /\ requests[c].pc = "received")
               => Stored(strings, SubmittedContent(c))
     /\ \A i, j \in 1..Len(strings') :
          strings'[i].id = strings'[j].id => i = j]_vars

\* C17 witness: two Submits of the same content were in flight together;
\* the one on connection 1 has created the record and the one on connection
\* 2, received before that insert, has been answered 409, with one record
\* stored.
C17_Witness ==
  /\ requests[1].pc = "done" /\ requests[1].op = POST
  /\ requests[1].status = 201
  /\ requests[2].pc = "done" /\ requests[2].op = POST
  /\ requests[2].status = 409
  /\ SubmittedContent(1) = SubmittedContent(2)
  /\ Len(strings) = 1
  /\ strings[1].value = SubmittedContent(1)

====
